---- MODULE Spec2Model ----
(***************************************************************************)
(* Signature verification of the trillian crypto package (verifier.go):    *)
(* PublicKeyFromFile, PublicKeyFromPEM, VerifyObject, Verify, verifyRSA    *)
(* and verifyECDSA, with the package-level cryptoHashLookup table as the   *)
(* only shared state.  Every call is a frame (arguments, locals, program   *)
(* position, result, the library primitives it has invoked so far); the    *)
(* frames of concurrent callers interleave statement by statement.         *)
(*                                                                         *)
(* The library primitives the code calls (crypto hash, asn1, ecdsa, rsa,   *)
(* pem, x509, json, objecthash) are modelled by small executable stand-ins *)
(* that keep the behaviour the code depends on: a DER reader that returns  *)
(* the bytes left over, a signature relation that binds key, digest and    *)
(* signature value, two RSA encodings that do not verify as one another.   *)
(***************************************************************************)
EXTENDS Integers, Sequences, FiniteSets, TLC

VARIABLES frames, cryptoHashLookup

vars == <<frames, cryptoHashLookup>>

(***************************************************************************)
(* Bounds of the model.                                                    *)
(***************************************************************************)
\* longest raw data argument of Verify, in bytes
MaxDataLen == 2

\* longest PEM text, in items (a line of other text, a broken block, a block)
MaxPemItems == 2

\* number of concurrent callers
NumProcs == 2

\* order of the group the stand-in signature arithmetic works in
GroupOrder == 23

Procs == 1..NumProcs

SeqsUpTo(S, n) == UNION {[1..k -> S] : k \in 0..n}

Range(s) == {s[i] : i \in DOMAIN s}

RECURSIVE SortedSeq(_)
SortedSeq(S) ==
  IF S = {} THEN <<>>
  ELSE LET m == CHOOSE x \in S : \A y \in S : x <= y
       IN <<m>> \o SortedSeq(S \ {m})

(***************************************************************************)
(* Error values.  errVerify is the package variable of line 35; the others *)
(* are the messages of the errors the code builds, and the error values    *)
(* the libraries return.                                                   *)
(***************************************************************************)
NoError == "nil"

errVerify == "signature verification failed"

ErrUnsupportedHash == "unsupported hash algorithm"

ErrAlgoMismatch == "signature algorithm does not match public key"

ErrUnknownKeyType == "unknown private key type"

ErrRSAVerification == "crypto/rsa: verification error"

ErrReadFile == "failed to read"

ErrPEMDecode == "could not decode PEM for public key"

ErrExtraData == "extra data found after PEM key decoded"

ErrParseKey == "unable to parse public key"

ErrJSONMarshal == "json: unsupported type"

(***************************************************************************)
(* Public keys: the dynamic type of a crypto.PublicKey and the key pair    *)
(* it belongs to.                                                          *)
(***************************************************************************)
Key(kind, id) == [kind |-> kind, id |-> id]

NilKey == Key("nil", 0)

ECDSAKeys == {Key("*ecdsa.PublicKey", i) : i \in {1, 2}}

RSAKeys == {Key("*rsa.PublicKey", i) : i \in {1, 2}}

DSAKey == Key("*dsa.PublicKey", 1)

PublicKeys == ECDSAKeys \cup RSAKeys \cup {DSAKey, NilKey}

\* the secret of the key pair a public key belongs to
PrivOf(pub) == pub.id + 1

(***************************************************************************)
(* sigpb.DigitallySigned and its enumerations.                             *)
(***************************************************************************)
HashAlgorithms == {"NONE", "SHA256"}

SignatureAlgorithms == {"ANONYMOUS", "RSA", "ECDSA"}

DigitallySigned(h, a, bytes) ==
  [HashAlgorithm |-> h, SignatureAlgorithm |-> a, Signature |-> bytes]

\* the table as the var block of lines 37-39 builds it
InitHashLookup == [h \in {"SHA256"} |-> "crypto.SHA256"]

\* the zero crypto.Hash a failed map lookup yields
ZeroHash == "crypto.Hash(0)"

(***************************************************************************)
(* crypto.Hash: hasher.New(), h.Write(data), h.Sum(nil).  The digest is    *)
(* the bijective base-4 numeral of the data, reduced into the group.       *)
(***************************************************************************)
RECURSIVE Numeral(_)
Numeral(bs) ==
  IF bs = <<>> THEN 0
  ELSE 4 * Numeral(SubSeq(bs, 1, Len(bs) - 1)) + bs[Len(bs)] + 1

HashSum(hasher, data) == Numeral(data) % GroupOrder

(***************************************************************************)
(* encoding/asn1: Unmarshal of a SEQUENCE into struct{R, S *big.Int}.      *)
(***************************************************************************)
RECURSIVE BigEndian(_)
BigEndian(bs) ==
  IF bs = <<>> THEN 0
  ELSE 256 * BigEndian(SubSeq(bs, 1, Len(bs) - 1)) + bs[Len(bs)]

RECURSIVE Pow256(_)
Pow256(n) == IF n = 0 THEN 1 ELSE 256 * Pow256(n - 1)

\* two's complement value of the content bytes of an INTEGER
SignedValue(bs) ==
  IF bs[1] >= 128 THEN BigEndian(bs) - Pow256(Len(bs)) ELSE BigEndian(bs)

\* an INTEGER at index off of bs: tag 2, short length, minimal content
ParseInteger(bs, off) ==
  LET bad == [ok |-> FALSE, val |-> 0, next |-> off]
  IN IF \/ off + 1 > Len(bs)
        \/ bs[off] # 2
        \/ bs[off + 1] >= 128
        \/ bs[off + 1] = 0
        \/ off + 1 + bs[off + 1] > Len(bs)
     THEN bad
     ELSE LET l == bs[off + 1]
              content == SubSeq(bs, off + 2, off + 1 + l)
          IN IF /\ l >= 2
                /\ \/ content[1] = 0 /\ content[2] < 128
                   \/ content[1] = 255 /\ content[2] >= 128
             THEN bad
             ELSE [ok |-> TRUE, val |-> SignedValue(content), next |-> off + 2 + l]

\* rest, err := asn1.Unmarshal(sig, &ecdsaSig).  Elements of the SEQUENCE
\* after the struct's two fields are skipped, as the library does.
asn1Unmarshal(sig) ==
  LET bad == [ok |-> FALSE, R |-> 0, S |-> 0, rest |-> <<>>]
  IN IF \/ Len(sig) < 2
        \/ sig[1] # 48
        \/ sig[2] >= 128
        \/ 2 + sig[2] > Len(sig)
     THEN bad
     ELSE LET inner == SubSeq(sig, 3, 2 + sig[2])
              r == ParseInteger(inner, 1)
          IN IF ~r.ok THEN bad
             ELSE LET s == ParseInteger(inner, r.next)
                  IN IF ~s.ok THEN bad
                     ELSE [ok |-> TRUE, R |-> r.val, S |-> s.val,
                           rest |-> SubSeq(sig, 3 + sig[2], Len(sig))]

(***************************************************************************)
(* crypto/ecdsa: Verify(pub, hashed, r, s).  r and s must lie in           *)
(* 1..N-1 and s must be the value the key pair's secret binds to the       *)
(* digest and r.                                                           *)
(***************************************************************************)
ecdsaVerify(pub, hashed, r, s) ==
  /\ r >= 1 /\ r < GroupOrder
  /\ s >= 1 /\ s < GroupOrder
  /\ s = (hashed + PrivOf(pub) * r) % GroupOrder

(***************************************************************************)
(* crypto/rsa: the encoded message of each padding scheme, the key's       *)
(* permutation, VerifyPKCS1v15 and VerifyPSS.                              *)
(***************************************************************************)
\* EMSA-PKCS1-v1_5: block type 1, then the digest
EncodePKCS1v15(hashed) == <<1, hashed>>

\* EMSA-PSS: the salt, then a value binding digest and salt
EncodePSS(hashed, salt) == <<2 + salt, (2 * hashed + salt + 1) % GroupOrder>>

\* the public operation of the key on each byte of the signature
rsaPublicOp(pub, sig) == [i \in DOMAIN sig |-> (sig[i] + 256 - 7 * PrivOf(pub)) % 256]

rsaVerifyPKCS1v15(pub, hasher, hashed, sig) ==
  /\ Len(sig) = 2
  /\ rsaPublicOp(pub, sig) = EncodePKCS1v15(hashed)

rsaVerifyPSS(pub, hasher, hashed, sig) ==
  /\ Len(sig) = 2
  /\ LET em == rsaPublicOp(pub, sig)
     IN /\ em[1] >= 2
        /\ em = EncodePSS(hashed, em[1] - 2)

(***************************************************************************)
(* The signer whose output Verify checks (Signer, in another file of the     *)
(* package): SHA256,             the algorithm of the key's family, and the    *)
(* signature in the family's encoding, DER SEQUENCE{INTEGER r, INTEGER s}  *)
(* for ECDSA, PKCS#1 v1.5 or PSS bytes for RSA.                            *)
(***************************************************************************)
EncodeInteger(v) == <<2, 1, v>>

EncodeECDSASignature(r, s) == <<48, 6>> \o EncodeInteger(r) \o EncodeInteger(s)

SignNonces == {1, 2}

PSSSalts == {0, 1}

ecdsaS(pub, hashed, k) == (hashed + PrivOf(pub) * k) % GroupOrder

\* the signatures an ECDSA signer can produce over data (a nonce that
\* gives s = 0 is drawn again)
SignECDSABytes(pub, data) ==
  {EncodeECDSASignature(k, ecdsaS(pub, HashSum("crypto.SHA256", data), k)) :
     k \in {n \in SignNonces : ecdsaS(pub, HashSum("crypto.SHA256", data), n) # 0}}

rsaPrivateOp(pub, em) == [i \in DOMAIN em |-> (em[i] + 7 * PrivOf(pub)) % 256]

SignPKCS1v15Bytes(pub, data) ==
  {rsaPrivateOp(pub, EncodePKCS1v15(HashSum("crypto.SHA256", data)))}

SignPSSBytes(pub, data) ==
  {rsaPrivateOp(pub, EncodePSS(HashSum("crypto.SHA256", data), salt)) : salt \in PSSSalts}

Family(pub) ==
  IF pub.kind = "*ecdsa.PublicKey" THEN "ECDSA"
  ELSE IF pub.kind = "*rsa.PublicKey" THEN "RSA"
  ELSE "ANONYMOUS"

SignBytes(pub, data) ==
  IF pub.kind = "*ecdsa.PublicKey" THEN SignECDSABytes(pub, data)
  ELSE SignPKCS1v15Bytes(pub, data) \cup SignPSSBytes(pub, data)

\* sign(privateKey, data), as the set of tagged signatures it can return
Sign(pub, data) ==
  {DigitallySigned("SHA256", Family(pub), b) : b \in SignBytes(pub, data)}

(***************************************************************************)
(* encoding/pem and crypto/x509.  A PEM text is a sequence of items: a     *)
(* line of other text, a block that does not decode, or a block with its   *)
(* decoded bytes.                                                          *)
(***************************************************************************)
DER(format, key) == [format |-> format, key |-> key]

NoDER == DER("none", NilKey)

PemItem(type, der) == [type |-> type, der |-> der]

KeyDERs ==
  {DER("PKIX", Key("*ecdsa.PublicKey", 1)), DER("PKIX", Key("*rsa.PublicKey", 1)),
   DER("PKIX", DSAKey), DER("PKCS1", Key("*rsa.PublicKey", 1))}

PemItems ==
  {PemItem("text", NoDER), PemItem("broken block", NoDER)}
    \cup {PemItem("block", d) : d \in KeyDERs}

PemTexts == SeqsUpTo(PemItems, MaxPemItems)

\* publicBlock, rest := pem.Decode(text): the first block that decodes,
\* and what follows it; no block, and the whole input as rest
pemDecode(text) ==
  LET found == {i \in DOMAIN text : text[i].type = "block"}
  IN IF found = {}
     THEN [found |-> FALSE, Bytes |-> NoDER, rest |-> text]
     ELSE LET i == CHOOSE x \in found : \A y \in found : x <= y
          IN [found |-> TRUE, Bytes |-> text[i].der,
              rest |-> SubSeq(text, i + 1, Len(text))]

x509ParsePKIXPublicKey(der) ==
  IF der.format = "PKIX"
  THEN [ok |-> TRUE, key |-> der.key]
  ELSE [ok |-> FALSE, key |-> NilKey]

\* what ioutil.ReadFile finds at a path
File(exists, content) == [exists |-> exists, content |-> content]

NoFile == File(FALSE, <<>>)

KeyFiles == {NoFile} \cup {File(TRUE, t) : t \in PemTexts}

(***************************************************************************)
(* encoding/json and objecthash.  An object is a struct (fields in         *)
(* declaration order), a map (in whatever order it is iterated) or a       *)
(* value json cannot marshal.                                              *)
(***************************************************************************)
MemberNames == <<"a", "b">>

MemberValues == {1, 2}

Object(kind, fields) == [kind |-> kind, fields |-> fields]

NoObject == Object("none", <<>>)

ChanObject == Object("chan", <<>>)

FieldLists ==
  {fs \in SeqsUpTo(Range(MemberNames) \X MemberValues, Len(MemberNames)) :
     \A i, k \in DOMAIN fs : i # k => fs[i][1] # fs[k][1]}

Objects == {ChanObject} \cup {Object(k, fs) : k \in {"struct", "map"}, fs \in FieldLists}

RECURSIVE SortByName(_, _)
SortByName(fields, names) ==
  IF names = <<>> THEN <<>>
  ELSE SelectSeq(fields, LAMBDA f : f[1] = Head(names)) \o SortByName(fields, Tail(names))

\* json.Marshal: a map's members sorted by key, a struct's in field order
jsonMarshal(obj) ==
  IF obj.kind = "chan" THEN [ok |-> FALSE, j |-> <<>>]
  ELSE IF obj.kind = "map" THEN [ok |-> TRUE, j |-> SortByName(obj.fields, MemberNames)]
  ELSE [ok |-> TRUE, j |-> obj.fields]

NameIndex(n) == CHOOSE i \in DOMAIN MemberNames : MemberNames[i] = n

\* objecthash of one member: hash(key) followed by hash(value)
EntryHash(member) == 2 * (NameIndex(member[1]) - 1) + (member[2] - 1)

\* objecthash.CommonJSONHash: the members' hashes, sorted, then hashed
CommonJSONHash(j) == SortedSeq({EntryHash(j[i]) : i \in DOMAIN j})

(***************************************************************************)
(* Frames.  A frame holds one call: its entry point, arguments, locals,    *)
(* position, result, and the primitives it has invoked, in order.          *)
(***************************************************************************)
NoSignature == DigitallySigned("NONE", "ANONYMOUS", <<>>)

IdleFrame ==
  [pc |-> "idle", op |-> "none",
   pub |-> NilKey, data |-> <<>>, obj |-> NoObject, sig |-> NoSignature,
   pemEncodedKey |-> <<>>, keyFile |-> NoFile,
   hasher |-> ZeroHash, opts |-> ZeroHash, digest |-> 0,
   R |-> 0, S |-> 0, j |-> <<>>, Bytes |-> NoDER,
   key |-> NilKey, err |-> NoError, trace |-> <<>>]

VerifyCall(pub, data, sig) ==
  [IdleFrame EXCEPT !.pc = "Verify", !.op = "Verify",
                    !.pub = pub, !.data = data, !.sig = sig]

VerifyObjectCall(pub, obj, sig) ==
  [IdleFrame EXCEPT !.pc = "VerifyObject", !.op = "VerifyObject",
                    !.pub = pub, !.obj = obj, !.sig = sig]

PublicKeyFromPEMCall(text) ==
  [IdleFrame EXCEPT !.pc = "PublicKeyFromPEM", !.op = "PublicKeyFromPEM",
                    !.pemEncodedKey = text]

PublicKeyFromFileCall(file) ==
  [IdleFrame EXCEPT !.pc = "PublicKeyFromFile", !.op = "PublicKeyFromFile",
                    !.keyFile = file]

verifyRSACall(pub, hashed, sigBytes, hasher, opts) ==
  [IdleFrame EXCEPT !.pc = "verifyRSA", !.op = "verifyRSA",
                    !.pub = pub, !.digest = hashed, !.hasher = hasher, !.opts = opts,
                    !.sig = DigitallySigned("SHA256", "RSA", sigBytes)]

Invoke(f, primitive) == [f EXCEPT !.trace = Append(@, primitive)]

Goto(f, pc) == [f EXCEPT !.pc = pc]

Return(f, key, err) == [f EXCEPT !.pc = "done", !.key = key, !.err = err]

(***************************************************************************)
(* The statements of the code, each a function from the frame (and, where  *)
(* it is read, the shared table) to the frame after it.                    *)
(***************************************************************************)
\* PublicKeyFromFile: read the file, fail on a read error, pass the text on
PublicKeyFromFileRead(f) ==
  LET g == Invoke(f, "ioutil.ReadFile")
  IN IF ~f.keyFile.exists
     THEN Return(g, NilKey, ErrReadFile)
     ELSE Goto([g EXCEPT !.pemEncodedKey = f.keyFile.content], "PublicKeyFromPEM")

\* PublicKeyFromPEMDecode without the check of rest
PublicKeyFromPEMDecodeAnyRest(f) ==
  LET g == Invoke(f, "pem.Decode")
      d == pemDecode(f.pemEncodedKey)
  IN IF ~d.found THEN Return(g, NilKey, ErrPEMDecode)
     ELSE Goto([g EXCEPT !.Bytes = d.Bytes], "PublicKeyFromPEM_parse")

\* PublicKeyFromPEM: pem.Decode, the nil-block check, the rest check
PublicKeyFromPEMDecode(f) ==
  LET g == Invoke(f, "pem.Decode")
      d == pemDecode(f.pemEncodedKey)
  IN IF ~d.found THEN Return(g, NilKey, ErrPEMDecode)
     ELSE IF Len(d.rest) > 0 THEN Return(g, NilKey, ErrExtraData)
     ELSE Goto([g EXCEPT !.Bytes = d.Bytes], "PublicKeyFromPEM_parse")

\* PublicKeyFromPEM: x509.ParsePKIXPublicKey and the return
PublicKeyFromPEMParse(f) ==
  LET g == Invoke(f, "x509.ParsePKIXPublicKey")
      parsed == x509ParsePKIXPublicKey(f.Bytes)
  IN IF ~parsed.ok THEN Return(g, NilKey, ErrParseKey)
     ELSE Return(g, parsed.key, NoError)

\* VerifyObjectMarshal with the error of json.Marshal dropped
VerifyObjectMarshalErrDropped(f) ==
  Goto([Invoke(f, "json.Marshal") EXCEPT !.j = jsonMarshal(f.obj).j], "VerifyObject_hash")

\* VerifyObject: json.Marshal and its error return
VerifyObjectMarshal(f) ==
  LET g == Invoke(f, "json.Marshal")
      m == jsonMarshal(f.obj)
  IN IF ~m.ok THEN Return(g, NilKey, ErrJSONMarshal)
     ELSE Goto([g EXCEPT !.j = m.j], "VerifyObject_hash")

\* VerifyObject: objecthash.CommonJSONHash, then the call of Verify
VerifyObjectHash(f) ==
  Goto([Invoke(f, "objecthash.CommonJSONHash") EXCEPT !.data = CommonJSONHash(f.j)],
       "Verify")

\* VerifyLookup falling back to SHA256 when the table has no entry
VerifyLookupDefault(f, table) ==
  LET g == Invoke(Invoke(f, "Verify"), "cryptoHashLookup")
      ok == f.sig.HashAlgorithm \in DOMAIN table
  IN Goto([g EXCEPT !.hasher = IF ok THEN table[f.sig.HashAlgorithm] ELSE "crypto.SHA256"],
          "Verify_digest")

\* Verify: the lookup of sig.HashAlgorithm in the table
VerifyLookup(f, table) ==
  LET g == Invoke(Invoke(f, "Verify"), "cryptoHashLookup")
      ok == f.sig.HashAlgorithm \in DOMAIN table
  IN IF ~ok THEN Return(g, NilKey, ErrUnsupportedHash)
     ELSE Goto([g EXCEPT !.hasher = table[f.sig.HashAlgorithm]], "Verify_digest")

\* VerifyDigest without h.Write(data)
VerifyDigestNothingWritten(f) ==
  Goto([Invoke(f, "hasher.Sum") EXCEPT !.digest = HashSum(f.hasher, <<>>)], "Verify_switch")

\* Verify: hasher.New(), h.Write(data), h.Sum(nil)
VerifyDigest(f) ==
  Goto([Invoke(f, "hasher.Sum") EXCEPT !.digest = HashSum(f.hasher, f.data)],
       "Verify_switch")

\* VerifySwitch without the checks of sigAlgo
VerifySwitchNoBinding(f) ==
  IF f.pub.kind = "*ecdsa.PublicKey" THEN Goto(f, "verifyECDSA")
  ELSE IF f.pub.kind = "*rsa.PublicKey" THEN Goto([f EXCEPT !.opts = f.hasher], "verifyRSA")
  ELSE Return(f, NilKey, ErrUnknownKeyType)

\* VerifySwitch without the default case: the function ends in return nil
VerifySwitchNoDefault(f) ==
  IF f.pub.kind = "*ecdsa.PublicKey"
  THEN IF f.sig.SignatureAlgorithm # "ECDSA"
       THEN Return(f, NilKey, ErrAlgoMismatch)
       ELSE Goto(f, "verifyECDSA")
  ELSE IF f.pub.kind = "*rsa.PublicKey"
  THEN IF f.sig.SignatureAlgorithm # "RSA"
       THEN Return(f, NilKey, ErrAlgoMismatch)
       ELSE Goto([f EXCEPT !.opts = f.hasher], "verifyRSA")
  ELSE Return(f, NilKey, NoError)

\* Verify: the type switch on pub and the check of sig.SignatureAlgorithm
VerifySwitch(f) ==
  IF f.pub.kind = "*ecdsa.PublicKey"
  THEN IF f.sig.SignatureAlgorithm # "ECDSA"
       THEN Return(f, NilKey, ErrAlgoMismatch)
       ELSE Goto(f, "verifyECDSA")
  ELSE IF f.pub.kind = "*rsa.PublicKey"
  THEN IF f.sig.SignatureAlgorithm # "RSA"
       THEN Return(f, NilKey, ErrAlgoMismatch)
       ELSE Goto([f EXCEPT !.opts = f.hasher], "verifyRSA")
  ELSE Return(f, NilKey, ErrUnknownKeyType)

\* verifyRSA with the type assertion on opts inverted
verifyRSAInverted(f) ==
  IF f.opts # "*rsa.PSSOptions"
  THEN Return(Invoke(f, "rsa.VerifyPSS"), NilKey,
              IF rsaVerifyPSS(f.pub, f.hasher, f.digest, f.sig.Signature)
              THEN NoError ELSE ErrRSAVerification)
  ELSE Return(Invoke(f, "rsa.VerifyPKCS1v15"), NilKey,
              IF rsaVerifyPKCS1v15(f.pub, f.hasher, f.digest, f.sig.Signature)
              THEN NoError ELSE ErrRSAVerification)

\* verifyRSA: PSS when opts is a *rsa.PSSOptions, PKCS#1 v1.5 otherwise
verifyRSA(f) ==
  IF f.opts = "*rsa.PSSOptions"
  THEN Return(Invoke(f, "rsa.VerifyPSS"), NilKey,
              IF rsaVerifyPSS(f.pub, f.hasher, f.digest, f.sig.Signature)
              THEN NoError ELSE ErrRSAVerification)
  ELSE Return(Invoke(f, "rsa.VerifyPKCS1v15"), NilKey,
              IF rsaVerifyPKCS1v15(f.pub, f.hasher, f.digest, f.sig.Signature)
              THEN NoError ELSE ErrRSAVerification)

\* verifyECDSAUnmarshal without the check of rest
verifyECDSAUnmarshalAnyRest(f) ==
  LET g == Invoke(f, "asn1.Unmarshal")
      u == asn1Unmarshal(f.sig.Signature)
  IN IF ~u.ok THEN Return(g, NilKey, errVerify)
     ELSE Goto([g EXCEPT !.R = u.R, !.S = u.S], "verifyECDSA_verify")

\* verifyECDSA: asn1.Unmarshal, its error, the bytes left over
verifyECDSAUnmarshal(f) ==
  LET g == Invoke(f, "asn1.Unmarshal")
      u == asn1Unmarshal(f.sig.Signature)
  IN IF ~u.ok THEN Return(g, NilKey, errVerify)
     ELSE IF Len(u.rest) # 0 THEN Return(g, NilKey, errVerify)
     ELSE Goto([g EXCEPT !.R = u.R, !.S = u.S], "verifyECDSA_verify")

\* verifyECDSAVerify with the result of ecdsa.Verify unused
verifyECDSAVerifyUnused(f) == Return(Invoke(f, "ecdsa.Verify"), NilKey, NoError)

\* verifyECDSA: ecdsa.Verify and the return
verifyECDSAVerify(f) ==
  LET g == Invoke(f, "ecdsa.Verify")
  IN IF ~ecdsaVerify(f.pub, f.digest, f.R, f.S)
     THEN Return(g, NilKey, errVerify)
     ELSE Return(g, NilKey, NoError)

\* the statement a frame is at
Step(f, table) ==
  CASE f.pc = "PublicKeyFromFile" -> PublicKeyFromFileRead(f)
    [] f.pc = "PublicKeyFromPEM" -> PublicKeyFromPEMDecode(f)
    [] f.pc = "PublicKeyFromPEM_parse" -> PublicKeyFromPEMParse(f)
    [] f.pc = "VerifyObject" -> VerifyObjectMarshal(f)
    [] f.pc = "VerifyObject_hash" -> VerifyObjectHash(f)
    [] f.pc = "Verify" -> VerifyLookup(f, table)
    [] f.pc = "Verify_digest" -> VerifyDigest(f)
    [] f.pc = "Verify_switch" -> VerifySwitch(f)
    [] f.pc = "verifyRSA" -> verifyRSA(f)
    [] f.pc = "verifyECDSA" -> verifyECDSAUnmarshal(f)
    [] f.pc = "verifyECDSA_verify" -> verifyECDSAVerify(f)
    [] OTHER -> f

\* a call run from entry to return with nothing else running
RECURSIVE RunAlone(_)
RunAlone(f) == IF f.pc \in {"done", "idle"} THEN f ELSE RunAlone(Step(f, InitHashLookup))

(***************************************************************************)
(* The arguments callers pass.                                             *)
(***************************************************************************)
RawData == SeqsUpTo({0, 1}, MaxDataLen)

SigningKeys == ECDSAKeys \cup RSAKeys

FirstECDSAKey == Key("*ecdsa.PublicKey", 1)

FirstRSAKey == Key("*rsa.PublicKey", 1)

\* an ECDSA signature damaged or re-encoded: a byte appended, the last
\* byte cut, another outer tag, a third INTEGER inside the SEQUENCE, s
\* changed, r with a superfluous leading zero, r negated
ECDSAVariants(b) ==
  {b \o <<0>>,
   SubSeq(b, 1, Len(b) - 1),
   [b EXCEPT ![1] = 49],
   [b EXCEPT ![2] = @ + 3] \o <<2, 1, 0>>,
   [b EXCEPT ![Len(b)] = (@ + 1) % 128],
   <<48, 7, 2, 2, 0, b[5]>> \o SubSeq(b, 6, Len(b)),
   [b EXCEPT ![5] = 256 - @]}

\* an RSA signature damaged: the last byte changed, a byte appended
RSAVariants(b) == {[b EXCEPT ![Len(b)] = (@ + 1) % 256], b \o <<0>>}

VerifySigBytes ==
  {<<>>}
    \cup UNION {SignBytes(k, d) : k \in SigningKeys, d \in RawData}
    \cup UNION {ECDSAVariants(b) : b \in UNION {SignECDSABytes(FirstECDSAKey, d) : d \in RawData}}
    \cup UNION {RSAVariants(b) : b \in UNION {SignPKCS1v15Bytes(FirstRSAKey, d) : d \in RawData}}

VerifyCalls ==
  {VerifyCall(pub, data, DigitallySigned(h, a, b)) :
     pub \in PublicKeys, data \in RawData,
     h \in HashAlgorithms, a \in SignatureAlgorithms, b \in VerifySigBytes}

ObjectData == {CommonJSONHash(jsonMarshal(o).j) : o \in Objects \ {ChanObject}}

ObjectSigBytes ==
  UNION {SignECDSABytes(FirstECDSAKey, d) \cup SignPKCS1v15Bytes(FirstRSAKey, d) : d \in ObjectData}

ObjectSigTags == {<<"SHA256", "ECDSA">>, <<"SHA256", "RSA">>, <<"NONE", "ECDSA">>}

VerifyObjectCalls ==
  {VerifyObjectCall(pub, obj, DigitallySigned(tag[1], tag[2], b)) :
     pub \in {FirstECDSAKey, FirstRSAKey, DSAKey}, obj \in Objects,
     tag \in ObjectSigTags, b \in ObjectSigBytes}

PublicKeyFromPEMCalls == {PublicKeyFromPEMCall(text) : text \in PemTexts}

PublicKeyFromFileCalls == {PublicKeyFromFileCall(file) : file \in KeyFiles}

verifyRSACalls ==
  {verifyRSACall(FirstRSAKey, HashSum("crypto.SHA256", d), b, "crypto.SHA256", opts) :
     d \in RawData, opts \in {"crypto.SHA256", "*rsa.PSSOptions"},
     b \in UNION {SignBytes(FirstRSAKey, d2) : d2 \in RawData}}

AllCalls ==
  [Verify |-> VerifyCalls, VerifyObject |-> VerifyObjectCalls,
   PublicKeyFromPEM |-> PublicKeyFromPEMCalls, PublicKeyFromFile |-> PublicKeyFromFileCalls,
   verifyRSA |-> verifyRSACalls]

\* the calls made by callers that run side by side
ConcurrentSigs ==
  {DigitallySigned(h, "ECDSA", b) :
     h \in HashAlgorithms, b \in SignECDSABytes(FirstECDSAKey, <<>>)}
    \cup {DigitallySigned("SHA256", "RSA", b) : b \in SignPKCS1v15Bytes(FirstRSAKey, <<>>)}

ConcurrentCalls ==
  [Verify |-> {VerifyCall(pub, <<>>, s) : pub \in {FirstECDSAKey, FirstRSAKey}, s \in ConcurrentSigs},
   VerifyObject |-> {VerifyObjectCall(FirstECDSAKey, o, s) :
                       o \in {ChanObject, Object("map", <<>>)},
                       s \in {DigitallySigned(h, "ECDSA", b) :
                                h \in HashAlgorithms, b \in SignECDSABytes(FirstECDSAKey, <<>>)
                                  \ SignECDSABytes(FirstECDSAKey, <<0>>)}},
   PublicKeyFromPEM |-> {PublicKeyFromPEMCall(<<PemItem("block", DER("PKIX", FirstECDSAKey))>>)},
   PublicKeyFromFile |-> {PublicKeyFromFileCall(NoFile)},
   verifyRSA |-> {verifyRSACall(FirstRSAKey, HashSum("crypto.SHA256", <<>>), b,
                                "crypto.SHA256", "*rsa.PSSOptions") :
                    b \in SignPSSBytes(FirstRSAKey, <<>>)}]

(***************************************************************************)
(* Actions: a caller enters one of the functions, or a frame executes the  *)
(* statement it is at.  No statement writes cryptoHashLookup.              *)
(***************************************************************************)
\* the caller has taken the result; nothing of the call is retained
Leave(p) ==
  /\ frames[p].pc = "done"
  /\ frames' = [frames EXCEPT ![p] = IdleFrame]
  /\ UNCHANGED cryptoHashLookup

CallVerify(p, calls) ==
  /\ frames[p].pc = "idle"
  /\ \E c \in calls.Verify : frames' = [frames EXCEPT ![p] = c]
  /\ UNCHANGED cryptoHashLookup

CallVerifyObject(p, calls) ==
  /\ frames[p].pc = "idle"
  /\ \E c \in calls.VerifyObject : frames' = [frames EXCEPT ![p] = c]
  /\ UNCHANGED cryptoHashLookup

CallPublicKeyFromPEM(p, calls) ==
  /\ frames[p].pc = "idle"
  /\ \E c \in calls.PublicKeyFromPEM : frames' = [frames EXCEPT ![p] = c]
  /\ UNCHANGED cryptoHashLookup

CallPublicKeyFromFile(p, calls) ==
  /\ frames[p].pc = "idle"
  /\ \E c \in calls.PublicKeyFromFile : frames' = [frames EXCEPT ![p] = c]
  /\ UNCHANGED cryptoHashLookup

CallverifyRSA(p, calls) ==
  /\ frames[p].pc = "idle"
  /\ \E c \in calls.verifyRSA : frames' = [frames EXCEPT ![p] = c]
  /\ UNCHANGED cryptoHashLookup

StmtPublicKeyFromFileRead(p) ==
  /\ frames[p].pc = "PublicKeyFromFile"
  /\ frames' = [frames EXCEPT ![p] = PublicKeyFromFileRead(frames[p])]
  /\ UNCHANGED cryptoHashLookup

StmtPublicKeyFromPEMDecode(p) ==
  /\ frames[p].pc = "PublicKeyFromPEM"
  /\ frames' = [frames EXCEPT ![p] = PublicKeyFromPEMDecode(frames[p])]
  /\ UNCHANGED cryptoHashLookup

StmtPublicKeyFromPEMParse(p) ==
  /\ frames[p].pc = "PublicKeyFromPEM_parse"
  /\ frames' = [frames EXCEPT ![p] = PublicKeyFromPEMParse(frames[p])]
  /\ UNCHANGED cryptoHashLookup

StmtVerifyObjectMarshal(p) ==
  /\ frames[p].pc = "VerifyObject"
  /\ frames' = [frames EXCEPT ![p] = VerifyObjectMarshal(frames[p])]
  /\ UNCHANGED cryptoHashLookup

StmtVerifyObjectHash(p) ==
  /\ frames[p].pc = "VerifyObject_hash"
  /\ frames' = [frames EXCEPT ![p] = VerifyObjectHash(frames[p])]
  /\ UNCHANGED cryptoHashLookup

\* StmtVerifyLookup registering SHA256 under an algorithm the table lacks
StmtVerifyLookupRegistering(p) ==
  /\ frames[p].pc = "Verify"
  /\ frames' = [frames EXCEPT ![p] = VerifyLookup(frames[p], cryptoHashLookup)]
  /\ cryptoHashLookup' =
       IF frames[p].sig.HashAlgorithm \in DOMAIN cryptoHashLookup THEN cryptoHashLookup
       ELSE (frames[p].sig.HashAlgorithm :> "crypto.SHA256") @@ cryptoHashLookup

StmtVerifyLookup(p) ==
  /\ frames[p].pc = "Verify"
  /\ frames' = [frames EXCEPT ![p] = VerifyLookup(frames[p], cryptoHashLookup)]
  /\ UNCHANGED cryptoHashLookup

StmtVerifyDigest(p) ==
  /\ frames[p].pc = "Verify_digest"
  /\ frames' = [frames EXCEPT ![p] = VerifyDigest(frames[p])]
  /\ UNCHANGED cryptoHashLookup

StmtVerifySwitch(p) ==
  /\ frames[p].pc = "Verify_switch"
  /\ frames' = [frames EXCEPT ![p] = VerifySwitch(frames[p])]
  /\ UNCHANGED cryptoHashLookup

StmtverifyRSA(p) ==
  /\ frames[p].pc = "verifyRSA"
  /\ frames' = [frames EXCEPT ![p] = verifyRSA(frames[p])]
  /\ UNCHANGED cryptoHashLookup

StmtverifyECDSAUnmarshal(p) ==
  /\ frames[p].pc = "verifyECDSA"
  /\ frames' = [frames EXCEPT ![p] = verifyECDSAUnmarshal(frames[p])]
  /\ UNCHANGED cryptoHashLookup

StmtverifyECDSAVerify(p) ==
  /\ frames[p].pc = "verifyECDSA_verify"
  /\ frames' = [frames EXCEPT ![p] = verifyECDSAVerify(frames[p])]
  /\ UNCHANGED cryptoHashLookup

Init ==
  /\ frames = [p \in Procs |-> IdleFrame]
  /\ cryptoHashLookup = InitHashLookup

Run(p, calls) ==
  \/ CallVerify(p, calls)
  \/ CallVerifyObject(p, calls)
  \/ CallPublicKeyFromPEM(p, calls)
  \/ CallPublicKeyFromFile(p, calls)
  \/ CallverifyRSA(p, calls)
  \/ StmtPublicKeyFromFileRead(p)
  \/ StmtPublicKeyFromPEMDecode(p)
  \/ StmtPublicKeyFromPEMParse(p)
  \/ StmtVerifyObjectMarshal(p)
  \/ StmtVerifyObjectHash(p)
  \/ StmtVerifyLookup(p)
  \/ StmtVerifyDigest(p)
  \/ StmtVerifySwitch(p)
  \/ StmtverifyRSA(p)
  \/ StmtverifyECDSAUnmarshal(p)
  \/ StmtverifyECDSAVerify(p)
  \/ Leave(p)

\* one caller, every argument
Next == Run(1, AllCalls)

Spec == Init /\ [][Next]_vars

\* callers side by side
NextConcurrent == \E p \in Procs : Run(p, ConcurrentCalls)

SpecConcurrent == Init /\ [][NextConcurrent]_vars

(***************************************************************************)
(* Properties.                                                             *)
(***************************************************************************)
Done(f) == f.pc = "done"

Invoked(f) == Range(f.trace)

\* the frame has entered Verify, directly or from VerifyObject
EnteredVerify(f) == f.op \in {"Verify", "VerifyObject"} /\ "Verify" \in Invoked(f)

HashSupported(sig) == sig.HashAlgorithm \in DOMAIN InitHashLookup

DecodingAndVerification ==
  {"asn1.Unmarshal", "ecdsa.Verify", "rsa.VerifyPKCS1v15", "rsa.VerifyPSS"}

\* the check of the signature bytes against a digest under a key
SignatureAccepted(pub, hashed, bytes) ==
  IF pub.kind = "*ecdsa.PublicKey"
  THEN LET u == asn1Unmarshal(bytes)
       IN u.ok /\ u.rest = <<>> /\ ecdsaVerify(pub, hashed, u.R, u.S)
  ELSE rsaVerifyPKCS1v15(pub, "crypto.SHA256", hashed, bytes)

\* C1: Verify returns nil only if the hash algorithm is in the table, the
\* key is an ECDSA or RSA key, sig.SignatureAlgorithm is the key's family
\* and the signature bytes pass the check against hash(data) under the key;
\* whenever one of these fails Verify returns an error.
VerifySucceedsOnlyThroughEveryGate ==
  \A p \in Procs :
    LET f == frames[p]
    IN (Done(f) /\ f.op = "Verify" /\ f.err = NoError) =>
         /\ HashSupported(f.sig)
         /\ f.pub \in SigningKeys
         /\ f.sig.SignatureAlgorithm = Family(f.pub)
         /\ SignatureAccepted(f.pub, HashSum("crypto.SHA256", f.data), f.sig.Signature)

\* a Verify call has returned nil
VerifyHasSucceeded ==
  \E p \in Procs : Done(frames[p]) /\ frames[p].op = "Verify" /\ frames[p].err = NoError

SignDeterministicPadding(pub, data) ==
  {DigitallySigned("SHA256", Family(pub), b) :
     b \in IF pub.kind = "*ecdsa.PublicKey" THEN SignECDSABytes(pub, data)
           ELSE SignPKCS1v15Bytes(pub, data)}

MismatchFailsBeforeDecoding ==
  \A p \in Procs :
    LET f == frames[p]
    IN (Done(f) /\ EnteredVerify(f) /\ HashSupported(f.sig) /\ f.pub \in SigningKeys
          /\ f.sig.SignatureAlgorithm # Family(f.pub))
         => /\ f.err = ErrAlgoMismatch
            /\ Invoked(f) \cap DecodingAndVerification = {}

\* an RSA key has met a signature tagged ECDSA whose bytes are a genuine
\* ECDSA signature over the data
RSAKeyMetECDSATag ==
  \E p \in Procs :
    LET f == frames[p]
    IN /\ Done(f) /\ f.op = "Verify" /\ f.pub \in RSAKeys
       /\ f.sig \in Sign(FirstECDSAKey, f.data)
       /\ f.err = ErrAlgoMismatch

\* C4: a signature whose HashAlgorithm is not in the table makes Verify
\* fail with the unsupported-hash error for every key, every
\* SignatureAlgorithm and every signature bytes; nothing is hashed under a
\* default and no later check is reached.
UnsupportedHashFailsFirst ==
  \A p \in Procs :
    LET f == frames[p]
    IN (Done(f) /\ EnteredVerify(f) /\ ~HashSupported(f.sig))
         => /\ f.err = ErrUnsupportedHash
            /\ "hasher.Sum" \notin Invoked(f)
            /\ Invoked(f) \cap DecodingAndVerification = {}

\* an unsupported hash algorithm has met a key of no supported type and a
\* tag of no family
UnsupportedHashMetUnknownKey ==
  \E p \in Procs :
    LET f == frames[p]
    IN /\ Done(f) /\ f.op = "Verify" /\ f.pub = DSAKey
       /\ f.sig.HashAlgorithm = "NONE" /\ f.sig.SignatureAlgorithm = "ANONYMOUS"
       /\ f.err = ErrUnsupportedHash

\* an ECDSA key with its own tag and a supported hash algorithm
ECDSAPathTaken(f) ==
  /\ Done(f) /\ EnteredVerify(f) /\ HashSupported(f.sig)
  /\ f.pub \in ECDSAKeys /\ f.sig.SignatureAlgorithm = "ECDSA"

\* the signature bytes do not decode, or leave bytes after the SEQUENCE
Malformed(bytes) == ~asn1Unmarshal(bytes).ok \/ asn1Unmarshal(bytes).rest # <<>>

\* the error Verify returns when the bytes decode and ecdsa.Verify rejects
ECDSARejection ==
  RunAlone(VerifyCall(FirstECDSAKey, <<>>,
                      DigitallySigned("SHA256", "ECDSA", EncodeECDSASignature(1, 1)))).err

\* C5, as stated: signature bytes that do not decode, or leave trailing
\* bytes, make Verify fail with an error the caller can tell from the one
\* returned when decoding succeeds and the ECDSA check rejects.
MalformedSignatureDistinguished ==
  \A p \in Procs :
    LET f == frames[p]
    IN (ECDSAPathTaken(f) /\ Malformed(f.sig.Signature))
         => f.err # NoError /\ f.err # ECDSARejection

\* C5, amended: such bytes make Verify fail, also when the leading bytes
\* alone would verify, with errVerify, the very error returned when
\* decoding succeeds and the ECDSA check rejects; ecdsa.Verify is not
\* reached.
MalformedSignatureFailsAsRejection ==
  \A p \in Procs :
    LET f == frames[p]
    IN (ECDSAPathTaken(f) /\ Malformed(f.sig.Signature))
         => /\ f.err = errVerify
            /\ f.err = ECDSARejection
            /\ "ecdsa.Verify" \notin Invoked(f)

\* a genuine signature followed by one more byte has been refused
TrailingByteRefused ==
  \E p \in Procs :
    LET f == frames[p]
    IN /\ ECDSAPathTaken(f) /\ f.op = "Verify"
       /\ \E b \in SignECDSABytes(f.pub, f.data) : f.sig.Signature = b \o <<0>>
       /\ f.err = errVerify

\* C6: with a supported hash algorithm, a key that is neither an ECDSA nor
\* an RSA key fails with the unknown-key-type error for every
\* SignatureAlgorithm and every signature bytes, and neither decoding nor
\* verification has been invoked.
UnknownKeyTypeFails ==
  \A p \in Procs :
    LET f == frames[p]
    IN (Done(f) /\ EnteredVerify(f) /\ HashSupported(f.sig) /\ f.pub \notin SigningKeys)
         => /\ f.err = ErrUnknownKeyType
            /\ Invoked(f) \cap DecodingAndVerification = {}

\* a DSA key has met a genuine RSA signature with the RSA tag
DSAKeyRefused ==
  \E p \in Procs :
    LET f == frames[p]
    IN /\ Done(f) /\ f.op = "Verify" /\ f.pub = DSAKey
       /\ f.sig \in Sign(FirstRSAKey, f.data)
       /\ f.err = ErrUnknownKeyType

\* an RSA key with its own tag and a supported hash algorithm, in Verify
RSAPathTaken(f) ==
  /\ Done(f) /\ f.op = "Verify" /\ HashSupported(f.sig)
  /\ f.pub \in RSAKeys /\ f.sig.SignatureAlgorithm = "RSA"

\* the signature in the caller's hands was made with probabilistic padding
MadeWithPSS(pub, bytes) == \E d \in RawData : bytes \in SignPSSBytes(pub, d)

CanonicalDigest(obj) == SortedSeq({EntryHash(m) : m \in Range(obj.fields)})

\* two objects that differ at most in the order of their members
SameMembers(o1, o2) ==
  /\ o1.kind # "chan" /\ o2.kind # "chan"
  /\ Range(o1.fields) = Range(o2.fields)

\* C8: VerifyObject returns the error of the reduction, without calling
\* Verify, when the object cannot be reduced; otherwise it returns exactly
\* what Verify returns on the object's canonical digest, and so the same
\* for any two objects that differ only in the order of their members.
VerifyObjectIsVerifyOfCanonicalDigest ==
  \A p \in Procs :
    LET f == frames[p]
    IN (Done(f) /\ f.op = "VerifyObject") =>
         IF ~jsonMarshal(f.obj).ok
         THEN f.err = ErrJSONMarshal /\ "Verify" \notin Invoked(f)
         ELSE /\ "Verify" \in Invoked(f)
              /\ f.err = RunAlone(VerifyCall(f.pub, CanonicalDigest(f.obj), f.sig)).err
              /\ \A o \in Objects :
                   SameMembers(o, f.obj) =>
                     RunAlone(VerifyObjectCall(f.pub, o, f.sig)).err = f.err

\* a struct whose fields are declared b, a has been verified under a
\* signature over its canonical digest
ReorderedObjectVerified ==
  \E p \in Procs :
    LET f == frames[p]
    IN /\ Done(f) /\ f.op = "VerifyObject"
       /\ f.obj.kind = "struct" /\ Len(f.obj.fields) = 2 /\ f.obj.fields[1][1] = "b"
       /\ f.err = NoError

\* what the text of a key must yield: no block, MalformedKeyEncoding;
\* anything after the first block, TrailingData; a block that is no PKIX
\* public key, UnsupportedKeyFormat; else the key
PEMOutcome(text) ==
  LET blocks == {i \in DOMAIN text : text[i].type = "block"}
  IN IF blocks = {} THEN [key |-> NilKey, err |-> ErrPEMDecode]
     ELSE LET first == CHOOSE i \in blocks : \A k \in blocks : i <= k
          IN IF first < Len(text) THEN [key |-> NilKey, err |-> ErrExtraData]
             ELSE IF text[first].der.format # "PKIX"
             THEN [key |-> NilKey, err |-> ErrParseKey]
             ELSE [key |-> text[first].der.key, err |-> NoError]

\* C9: PublicKeyFromPEM fails, in this order, when no block decodes, when
\* bytes remain after the first block (also if that block holds a valid
\* key), when the block's bytes are no recognized public key; it returns a
\* key only for exactly one block with nothing after it that parses.
\* PublicKeyFromFile returns the read error without decoding anything when
\* the read fails, and otherwise what PublicKeyFromPEM returns on the
\* file's contents.
KeyLoadingChecksInOrder ==
  \A p \in Procs :
    LET f == frames[p]
        got == [key |-> f.key, err |-> f.err]
    IN /\ (Done(f) /\ f.op = "PublicKeyFromPEM") =>
            /\ got = PEMOutcome(f.pemEncodedKey)
            /\ f.err \in {ErrPEMDecode, ErrExtraData} => f.trace = <<"pem.Decode">>
            /\ f.err = NoError =>
                 /\ Cardinality({i \in DOMAIN f.pemEncodedKey :
                                   f.pemEncodedKey[i].type = "block"}) = 1
                 /\ f.pemEncodedKey[Len(f.pemEncodedKey)].type = "block"
       /\ (Done(f) /\ f.op = "PublicKeyFromFile") =>
            IF ~f.keyFile.exists
            THEN got = [key |-> NilKey, err |-> ErrReadFile] /\ f.trace = <<"ioutil.ReadFile">>
            ELSE got = PEMOutcome(f.keyFile.content)

\* a file holding a valid key block followed by a line of text has been
\* refused for the trailing data
TrailingDataRefused ==
  \E p \in Procs :
    LET f == frames[p]
    IN /\ Done(f) /\ f.op = "PublicKeyFromFile" /\ f.keyFile.exists
       /\ f.keyFile.content =
            <<PemItem("block", DER("PKIX", FirstECDSAKey)), PemItem("text", NoDER)>>
       /\ f.err = ErrExtraData

\* the call a frame was entered with
EntryOf(f) ==
  CASE f.op = "Verify" -> VerifyCall(f.pub, f.data, f.sig)
    [] f.op = "VerifyObject" -> VerifyObjectCall(f.pub, f.obj, f.sig)
    [] f.op = "PublicKeyFromPEM" -> PublicKeyFromPEMCall(f.pemEncodedKey)
    [] f.op = "PublicKeyFromFile" -> PublicKeyFromFileCall(f.keyFile)
    [] f.op = "verifyRSA" ->
         verifyRSACall(f.pub, f.digest, f.sig.Signature, f.hasher, f.opts)
    [] OTHER -> f

\* C10: however the calls of concurrent callers interleave, the hash
\* table is as it was initialized, and every call that has returned has
\* returned what the same arguments give when the call runs alone.
CallsAreIndependent ==
  /\ cryptoHashLookup = InitHashLookup
  /\ \A p \in Procs :
       LET f == frames[p]
       IN Done(f) =>
            LET alone == RunAlone(EntryOf(f))
            IN f.key = alone.key /\ f.err = alone.err /\ f.trace = alone.trace

\* one caller has been refused for an unsupported hash algorithm while
\* another, past the table lookup, is in the middle of Verify
RefusalBesideRunningCall ==
  /\ Done(frames[1]) /\ frames[1].op = "Verify" /\ frames[1].err = ErrUnsupportedHash
  /\ frames[2].op = "Verify" /\ frames[2].pc = "Verify_switch"

====
